---------------------------- MODULE Spec2Model ----------------------------
(***************************************************************************)
(* Verification model of kylewlacy/aoc-2022.                               *)
(*                                                                         *)
(* Day 16 (src/day16/src/bin/part1.rs): the tunnel graph built by          *)
(* Tunnels::from_scans, the scorer Path::score and the exhaustive search   *)
(* find_best_path, driven as main drives them: read the scans, build the   *)
(* graph, search, score the result.                                        *)
(*                                                                         *)
(* Two library behaviours the program relies on are modelled as the        *)
(* libraries implement them:                                               *)
(*  - petgraph's Graph::add_edge links the new edge at the HEAD of the     *)
(*    source node's outgoing list, so Graph::neighbors yields the targets  *)
(*    most-recently-added first;                                           *)
(*  - Iterator::max_by_key returns the LAST of several equally maximal     *)
(*    elements.                                                            *)
(* Flow rates and scores are u64 in the program; the model keeps them far  *)
(* below 2^64, so no sum overflows.                                        *)
(***************************************************************************)
EXTENDS Integers, Sequences, FiniteSets

\* ------------------------------------------------------------------------
\* Bounds of the model
\* ------------------------------------------------------------------------

\* Most scan lines read from stdin.
MaxScans == 3
\* Most tunnel targets over all scan lines together.
MaxEdges == 2
\* Largest flow rate of a generated scan line.
MaxFlowRate == 1
\* Largest time budget (--time) of a search.
MaxTime == 4
\* Longest hand-built Path in PathSpec.
MaxSteps == 3
\* Day 8: most rows read, widest row, tallest tree of a generated row.
MaxRows == 3
MaxWidth == 3
MaxTreeHeight == 1
\* Day 14: most rock paths read, most points of a path, how far left or
\* right of the source and how far below it a path point lies, and the value
\* at which the model stops counting steps.
MaxPaths == 1
MaxPathPoints == 3
MaxReach == 1
MaxDepth == 2
MaxSandSteps == 3

\* Valve names: [A-Z]+ in the scan regex; three of them.
ValveNames == << "A", "B", "C" >>
Valves == {ValveNames[i] : i \in 1..Len(ValveNames)}

\* ------------------------------------------------------------------------
\* Data
\* ------------------------------------------------------------------------

\* struct Room { valve, flow_rate }; derives PartialEq, Eq, Hash, so two
\* rooms are the same exactly when both fields agree.
Room(valve, flow_rate) == [valve |-> valve, flow_rate |-> flow_rate]

\* enum Step<'a> { Open { room }, Go { room } }
Open(room) == [kind |-> "Open", room |-> room]
Go(room) == [kind |-> "Go", room |-> room]

\* struct TunnelScan { valve, flow_rate, paths }
TunnelScan(valve, flow_rate, paths) ==
    [valve |-> valve, flow_rate |-> flow_rate, paths |-> paths]

\* Sequences over S of length at most n.
SeqUpTo(S, n) == UNION {[1..k -> S] : k \in 0..n}

RECURSIVE FlowRateSum(_)
\* open_valves.iter().map(|room| room.flow_rate).sum()
FlowRateSum(open_valves) ==
    IF open_valves = {} THEN 0
    ELSE LET room == CHOOSE r \in open_valves : TRUE
         IN room.flow_rate + FlowRateSum(open_valves \ {room})

\* The scans of the two-node example: A (rate 0) <-> B (rate 5).
ExampleScans ==
    << TunnelScan("A", 0, <<"B">>), TunnelScan("B", 5, <<"A">>) >>

\* The scans of a three-room chain: A (rate 5) -> B (rate 6) -> C (rate 8).
ChainScans ==
    << TunnelScan("A", 5, <<"B">>), TunnelScan("B", 6, <<"C">>),
       TunnelScan("C", 8, << >>) >>

\* Day 8, TreePatch::new: no width yet, no trees.
TreePatchNew == [width |-> 0, trees |-> << >>]

VARIABLES
    pc,             \* position of main / of the Path under test
    tunnel_scans,   \* main: Vec<TunnelScan> collected from stdin
    tunnels,        \* main: Tunnels { room_nodes, room_graph }
    starting_room,  \* Args.starting_room
    time,           \* Args.time, or the budget handed to Path::score
    best_path,      \* Path.steps: the search result / the Path under test
    score,          \* the value returned by Path::score
    tree_patch,     \* day 8 main: TreePatch { width, trees }
    index,          \* day 8 main: the index the visibility filter visits next
    total_visible_trees, \* day 8 main: the trees counted visible so far
    sand_paths,     \* day 14 main: Vec<Path> parsed from stdin
    world,          \* day 14 main: World { cells, source }
    sand_steps,     \* day 14 main: steps, the step counter of the loop
    columns,        \* day 5 main: BTreeMap<usize, VecDeque<char>>
    move_command,   \* day 5 main: count, from_column, to_column of a move
    filesystem,     \* day 7 main: the root FilesystemEntry
    current_directory,  \* day 7 main: Path.components
    rope,           \* day 9 main: Rope { knot_positions, last_positions }
    monkeys,        \* day 11 play_keep_away: Vec<Monkey>
    round,          \* day 11 play_keep_away: the round of the outer loop
    turn            \* day 11 play_keep_away: i of the inner loop

\* The variables of day 16 other than pc, and the variables of day 8.
tunnel_vars == <<tunnel_scans, tunnels, starting_room, time, best_path, score>>
tree_vars == <<tree_patch, index, total_visible_trees>>
sand_vars == <<sand_paths, world, sand_steps>>
crate_vars == <<columns, move_command>>
fs_vars == <<filesystem, current_directory>>
rope_vars == <<rope>>
monkey_vars == <<monkeys, round, turn>>

\* The variables of the days after day 16 and day 8.
other_days == <<sand_vars, crate_vars, fs_vars, rope_vars, monkey_vars>>

vars == <<pc, tunnel_vars, tree_vars, other_days>>

\* The values the variables of a day hold while another day's program runs.
NoWorld == [bounds |-> << >>, cells |-> << >>, source |-> << >>]
NoMove == [count |-> 0, from_column |-> 0, to_column |-> 0]
SandIdle == sand_paths = << >> /\ world = NoWorld /\ sand_steps = 0
CratesIdle == columns = << >> /\ move_command = NoMove
FsIdle == filesystem = << >> /\ current_directory = << >>
RopeIdle == rope = [knot_positions |-> << >>, last_positions |-> {}]
MonkeysIdle == monkeys = << >> /\ round = 0 /\ turn = 0
OtherDaysIdle == SandIdle /\ CratesIdle /\ FsIdle /\ RopeIdle /\ MonkeysIdle

\* ------------------------------------------------------------------------
\* Tunnels::from_scans
\* ------------------------------------------------------------------------

\* First loop: add_node per scan, in scan order. NodeIndex i is position i.
GraphNodes(scans) ==
    [i \in 1..Len(scans) |-> Room(scans[i].valve, scans[i].flow_rate)]

\* First loop: room_nodes.insert(valve, node); HashMap::insert replaces the
\* entry of an equal key, so a valve maps to the node of its LAST scan.
RoomNodes(scans) ==
    [v \in {scans[i].valve : i \in 1..Len(scans)} |->
        CHOOSE i \in 1..Len(scans) :
            /\ scans[i].valve = v
            /\ \A j \in 1..Len(scans) : scans[j].valve = v => j <= i]

\* room_nodes.get(path).unwrap() panics for a path that names no scan.
ScansPanic(scans) ==
    \E i \in 1..Len(scans) : \E k \in 1..Len(scans[i].paths) :
        scans[i].paths[k] \notin {scans[j].valve : j \in 1..Len(scans)}

RECURSIVE GraphEdges(_, _, _)
\* Second loop: the edges in the order add_edge is called, scans from
\* position i on: for each scan, for each of its paths.
GraphEdges(scans, room_nodes, i) ==
    IF i > Len(scans) THEN << >>
    ELSE [k \in 1..Len(scans[i].paths) |->
            << room_nodes[scans[i].valve], room_nodes[scans[i].paths[k]] >>]
         \o GraphEdges(scans, room_nodes, i + 1)

\* The Tunnels value from_scans returns when it does not panic.
FromScans(scans) ==
    LET room_nodes == RoomNodes(scans)
    IN [room_nodes |-> room_nodes,
        room_graph |-> [nodes |-> GraphNodes(scans),
                        edges |-> GraphEdges(scans, room_nodes, 1)]]

RECURSIVE NeighborsFrom(_, _, _)
\* The targets of the edges k, k-1, .., 1 that start at node.
NeighborsFrom(edges, node, k) ==
    IF k = 0 THEN << >>
    ELSE (IF edges[k][1] = node THEN << edges[k][2] >> ELSE << >>)
         \o NeighborsFrom(edges, node, k - 1)

RECURSIVE NeighborsOldestFrom(_, _, _)
\* The targets of the edges k, k+1, .. that start at node.
NeighborsOldestFrom(edges, node, k) ==
    IF k > Len(edges) THEN << >>
    ELSE (IF edges[k][1] = node THEN << edges[k][2] >> ELSE << >>)
         \o NeighborsOldestFrom(edges, node, k + 1)

\* Variant of neighbors: the outgoing list in the order the edges were
\* added (a new edge linked at the tail).
NeighborsOldestFirst(room_graph, node) ==
    NeighborsOldestFrom(room_graph.edges, node, 1)

\* room_graph.neighbors(node): the outgoing list, newest edge first.
Neighbors(room_graph, node) ==
    NeighborsFrom(room_graph.edges, node, Len(room_graph.edges))

\* ------------------------------------------------------------------------
\* Path
\* ------------------------------------------------------------------------

\* Path::empty
PathEmpty == << >>

\* Variant of Path::add: the step is inserted at the front of steps.
PathAddFront(steps, step) == << step >> \o steps

\* Variant of Path::add: the step is not stored.
PathAddDropped(steps, step) == steps

\* Path::add: Vec::push, the step goes to the END of steps.
PathAdd(steps, step) == Append(steps, step)

RECURSIVE ScoreLoop(_, _, _, _, _)
\* The while loop of Path::score; next is the position steps.next() reads.
ScoreLoop(steps, next, t, open_valves, acc) ==
    IF t = 0 THEN acc
    ELSE LET opened ==
                 IF next <= Len(steps) /\ steps[next].kind = "Open"
                 THEN open_valves \cup {steps[next].room}
                 ELSE open_valves
             current_flow_rate == FlowRateSum(opened)
         IN ScoreLoop(steps, next + 1, t - 1, opened, acc + current_flow_rate)

RECURSIVE ScoreLoopDup(_, _, _, _)
\* Variant of the loop: the open valves kept in a Vec, so a valve opened
\* twice flows twice (flow is the flow rate of all Open steps replayed).
ScoreLoopDup(steps, next, t, acc) ==
    IF t = 0 THEN acc
    ELSE LET replayed == {i \in 1..Len(steps) : i <= next /\ steps[i].kind = "Open"}
             flow[S \in SUBSET (1..Len(steps))] ==
                 IF S = {} THEN 0
                 ELSE LET i == CHOOSE j \in S : TRUE
                      IN steps[i].room.flow_rate + flow[S \ {i}]
         IN ScoreLoopDup(steps, next + 1, t - 1, acc + flow[replayed])

\* Variant of Path::score: duplicate Opens counted again.
PathScoreCountsDuplicates(steps, t) == ScoreLoopDup(steps, 1, t, 0)

\* Variant of Path::score: a do-while loop, the body runs before the
\* budget is tested.
PathScoreRunsOnce(steps, t) ==
    ScoreLoop(steps, 1, IF t = 0 THEN 1 ELSE t, {}, 0)

RECURSIVE ScoreLoopSub(_, _, _, _, _)
\* Variant of the loop: the accumulator updated with the wrong operator.
ScoreLoopSub(steps, next, t, open_valves, acc) ==
    IF t = 0 THEN acc
    ELSE LET opened ==
                 IF next <= Len(steps) /\ steps[next].kind = "Open"
                 THEN open_valves \cup {steps[next].room}
                 ELSE open_valves
         IN ScoreLoopSub(steps, next + 1, t - 1, opened,
                         acc - FlowRateSum(opened))

\* Variant of Path::score: score -= current_flow_rate.
PathScoreSubtracts(steps, t) == ScoreLoopSub(steps, 1, t, {}, 0)

RECURSIVE ScoreLoopLate(_, _, _, _, _)
\* Variant of the loop: the flow is added before the step is applied, so
\* a valve flows from the step after its Open.
ScoreLoopLate(steps, next, t, open_valves, acc) ==
    IF t = 0 THEN acc
    ELSE LET opened ==
                 IF next <= Len(steps) /\ steps[next].kind = "Open"
                 THEN open_valves \cup {steps[next].room}
                 ELSE open_valves
         IN ScoreLoopLate(steps, next + 1, t - 1, opened,
                          acc + FlowRateSum(open_valves))

\* Variant of Path::score: a valve flows from the step after its Open.
PathScoreFlowsNextStep(steps, t) == ScoreLoopLate(steps, 1, t, {}, 0)

\* Variant of Path::score: the steps iterator advanced once before the loop.
PathScoreSkipsFirst(steps, t) == ScoreLoop(steps, 2, t, {}, 0)

\* Path::score(&self, time)
PathScore(steps, t) == ScoreLoop(steps, 1, t, {}, 0)

\* ------------------------------------------------------------------------
\* find_best_path
\* ------------------------------------------------------------------------

\* Variant of max_by_key: the FIRST maximal element is kept.
MaxByKeyFirst(paths, t) ==
    LET keys == [i \in 1..Len(paths) |-> PathScore(paths[i], t)]
        best == CHOOSE i \in 1..Len(paths) :
                    /\ \A j \in 1..Len(paths) : keys[j] <= keys[i]
                    /\ \A j \in 1..(i - 1) : keys[j] < keys[i]
    IN paths[best]

\* Variant of the ranking: the key is the score under one more step than the
\* call's time, the last maximal element.
MaxByKeyNextBudget(paths, t) ==
    LET keys == [i \in 1..Len(paths) |-> PathScore(paths[i], t + 1)]
        best == CHOOSE i \in 1..Len(paths) :
                    /\ \A j \in 1..Len(paths) : keys[j] <= keys[i]
                    /\ \A j \in (i + 1)..Len(paths) : keys[j] < keys[i]
    IN paths[best]

\* Iterator::max_by_key(|path| path.score(t)): the last maximal element.
MaxByKey(paths, t) ==
    LET keys == [i \in 1..Len(paths) |-> PathScore(paths[i], t)]
        best == CHOOSE i \in 1..Len(paths) :
                    /\ \A j \in 1..Len(paths) : keys[j] <= keys[i]
                    /\ \A j \in (i + 1)..Len(paths) : keys[j] < keys[i]
    IN paths[best]

\* Variant of candidate_steps: Open first, then the Go steps.
CandidateStepsOpenFirst(tuns, room_name) ==
    LET node == tuns.room_nodes[room_name]
        room == tuns.room_graph.nodes[node]
        nbrs == Neighbors(tuns.room_graph, node)
    IN << Open(room) >>
       \o [i \in 1..Len(nbrs) |-> Go(tuns.room_graph.nodes[nbrs[i]])]

\* Variant of candidate_steps: the Go steps only, no chained Open.
CandidateStepsNoOpen(tuns, room_name) ==
    LET node == tuns.room_nodes[room_name]
        nbrs == Neighbors(tuns.room_graph, node)
    IN [i \in 1..Len(nbrs) |-> Go(tuns.room_graph.nodes[nbrs[i]])]

\* candidate_steps: Go to every neighbor in neighbors() order, then Open.
CandidateSteps(tuns, room_name) ==
    LET node == tuns.room_nodes[room_name]
        room == tuns.room_graph.nodes[node]
        nbrs == Neighbors(tuns.room_graph, node)
    IN [i \in 1..Len(nbrs) |-> Go(tuns.room_graph.nodes[nbrs[i]])]
       \o << Open(room) >>

RECURSIVE FindBestPath(_, _, _)
RECURSIVE MapCandidates(_, _, _, _)
\* The .map closure over candidate_steps from position i on.
MapCandidates(tuns, candidate_steps, t, i) ==
    IF i > Len(candidate_steps) THEN << >>
    ELSE << PathAdd(FindBestPath(tuns, candidate_steps[i].room.valve, t - 1),
                    candidate_steps[i]) >>
         \o MapCandidates(tuns, candidate_steps, t, i + 1)

\* The candidate paths of one call, in iteration order: for each candidate
\* step the best path from its room with time - 1, then the step pushed.
CandidatePaths(tuns, room_name, t) ==
    MapCandidates(tuns, CandidateSteps(tuns, room_name), t, 1)

\* Variant of find_best_path: the base case opens the starting room.
FindBestPathOpensAtZero(tuns, room_name, t) ==
    IF t = 0
    THEN << Open(tuns.room_graph.nodes[tuns.room_nodes[room_name]]) >>
    ELSE LET paths == CandidatePaths(tuns, room_name, t)
         IN IF Len(paths) = 0 THEN PathEmpty
            ELSE MaxByKey(paths, t)

\* find_best_path for a starting room that room_nodes holds.
FindBestPath(tuns, room_name, t) ==
    IF t = 0 THEN PathEmpty
    ELSE LET paths == CandidatePaths(tuns, room_name, t)
         IN IF Len(paths) = 0 THEN PathEmpty  \* unwrap_or_else
            ELSE MaxByKey(paths, t)

\* ------------------------------------------------------------------------
\* Specification Spec: main
\* ------------------------------------------------------------------------

NoTunnels == [room_nodes |-> << >>, room_graph |-> [nodes |-> << >>, edges |-> << >>]]

RECURSIVE CountPaths(_, _)
\* Tunnel targets named by the scans from position i on.
CountPaths(scans, i) ==
    IF i > Len(scans) THEN 0
    ELSE Len(scans[i].paths) + CountPaths(scans, i + 1)

Init ==
    /\ pc = "read"
    /\ tunnel_scans \in {<< >>, ExampleScans, ChainScans}
    /\ tunnels = NoTunnels
    /\ starting_room = "AA"
    /\ time = 0
    /\ best_path = PathEmpty
    /\ score = 0
    /\ tree_patch = TreePatchNew
    /\ index = 0
    /\ total_visible_trees = 0
    /\ OtherDaysIdle

\* main, lines 25-28: one more line of stdin parsed into a TunnelScan.
ReadScan ==
    /\ pc = "read"
    /\ Len(tunnel_scans) < MaxScans
    /\ \E valve \in Valves, flow_rate \in 0..MaxFlowRate,
          paths \in SeqUpTo(Valves, MaxEdges) :
          /\ CountPaths(tunnel_scans, 1) + Len(paths) <= MaxEdges
          /\ tunnel_scans' = Append(tunnel_scans,
                                    TunnelScan(valve, flow_rate, paths))
    /\ UNCHANGED <<pc, tunnels, starting_room, time, best_path, score>>
    /\ UNCHANGED tree_vars
    /\ UNCHANGED other_days

\* main, line 30: Tunnels::from_scans(&tunnel_scans), or its panic.
BuildTunnels ==
    /\ pc = "read"
    /\ \/ /\ ~ScansPanic(tunnel_scans)
          /\ tunnels' = FromScans(tunnel_scans)
          /\ pc' = "built"
       \/ /\ ScansPanic(tunnel_scans)
          /\ pc' = "panic_from_scans"
          /\ UNCHANGED tunnels
    /\ UNCHANGED <<tunnel_scans, starting_room, time, best_path, score>>
    /\ UNCHANGED tree_vars
    /\ UNCHANGED other_days

\* Variant of the search: the time == 0 base case is tested before the
\* starting room is looked up.
SearchChecksTimeFirst ==
    /\ pc = "built"
    /\ \E room_name \in Valves, t \in 0..MaxTime :
          /\ starting_room' = room_name
          /\ time' = t
          /\ \/ /\ t = 0
                /\ best_path' = PathEmpty
                /\ pc' = "found"
             \/ /\ t > 0
                /\ room_name \in DOMAIN tunnels.room_nodes
                /\ best_path' = FindBestPath(tunnels, room_name, t)
                /\ pc' = "found"
             \/ /\ t > 0
                /\ room_name \notin DOMAIN tunnels.room_nodes
                /\ pc' = "panic_find_best_path"
                /\ UNCHANGED best_path
    /\ UNCHANGED <<tunnel_scans, tunnels, score>>
    /\ UNCHANGED tree_vars
    /\ UNCHANGED other_days

\* main, line 32: find_best_path(&tunnels, &args.starting_room, args.time, 0);
\* line 172 unwraps the lookup of the starting room before anything else.
Search ==
    /\ pc = "built"
    /\ \E room_name \in Valves, t \in 0..MaxTime :
          /\ starting_room' = room_name
          /\ time' = t
          /\ \/ /\ room_name \in DOMAIN tunnels.room_nodes
                /\ best_path' = FindBestPath(tunnels, room_name, t)
                /\ pc' = "found"
             \/ /\ room_name \notin DOMAIN tunnels.room_nodes
                /\ pc' = "panic_find_best_path"
                /\ UNCHANGED best_path
    /\ UNCHANGED <<tunnel_scans, tunnels, score>>
    /\ UNCHANGED tree_vars
    /\ UNCHANGED other_days

\* main, line 44: best_path.score(args.time)
ScoreBest ==
    /\ pc = "found"
    /\ score' = PathScore(best_path, time)
    /\ pc' = "done"
    /\ UNCHANGED <<tunnel_scans, tunnels, starting_room, time, best_path>>
    /\ UNCHANGED tree_vars
    /\ UNCHANGED other_days

Next == ReadScan \/ BuildTunnels \/ Search \/ ScoreBest

Spec == Init /\ [][Next]_vars

\* ------------------------------------------------------------------------
\* Specification PathSpec: a Path built step by step, then scored
\* ------------------------------------------------------------------------

\* The rooms a step may reference.
Rooms == {Room(v, r) : v \in Valves, r \in 0..MaxFlowRate}

InitPath ==
    /\ pc = "path"
    /\ tunnel_scans = << >>
    /\ tunnels = NoTunnels
    /\ starting_room = "AA"
    /\ time = 0
    /\ best_path = PathEmpty
    /\ score = 0
    /\ tree_patch = TreePatchNew
    /\ index = 0
    /\ total_visible_trees = 0
    /\ OtherDaysIdle

\* Path::add with any step.
AddStep ==
    /\ pc = "path"
    /\ Len(best_path) < MaxSteps
    /\ \E room \in Rooms :
          \E step \in {Open(room), Go(room)} :
             best_path' = PathAdd(best_path, step)
    /\ UNCHANGED <<pc, tunnel_scans, tunnels, starting_room, time, score>>
    /\ UNCHANGED tree_vars
    /\ UNCHANGED other_days

\* Path::score with any budget.
ScorePath ==
    /\ pc = "path"
    /\ \E t \in 0..MaxTime :
          /\ time' = t
          /\ score' = PathScore(best_path, t)
    /\ pc' = "scored"
    /\ UNCHANGED <<tunnel_scans, tunnels, starting_room, best_path>>
    /\ UNCHANGED tree_vars
    /\ UNCHANGED other_days

NextPath == AddStep \/ ScorePath

PathSpec == InitPath /\ [][NextPath]_vars

\* ------------------------------------------------------------------------
\* Path::score: C4, C5, C6 (checked under PathSpec)
\* ------------------------------------------------------------------------

\* Position i of steps is an Open of a room already opened before i.
DuplicateOpen(steps, i) ==
    /\ steps[i].kind = "Open"
    /\ \E j \in 1..(i - 1) :
          steps[j].kind = "Open" /\ steps[j].room = steps[i].room

\* C4: idempotent activation. For the scored path, every position i that
\* re-opens a room opened earlier, and every Go step: the path with
\* position i replaced by that Go step has the same score under the same
\* budget, so the duplicate Open added no reward.
C4_DuplicateOpenAddsNothing ==
    pc = "scored" =>
        \A i \in 1..Len(best_path) : \A room \in Rooms :
            DuplicateOpen(best_path, i) =>
                PathScore([best_path EXCEPT ![i] = Go(room)], time) = score

\* Witness of C4: a scored path that re-opens a flowing room within the
\* budget.
C4_Witness ==
    /\ pc = "scored"
    /\ \E i \in 1..Len(best_path) :
          /\ DuplicateOpen(best_path, i)
          /\ best_path[i].room.flow_rate > 0
          /\ i <= time
    /\ score > 0

\* C5: zero-budget identity. Path::score(p, 0) is 0 whatever p holds.
C5_ZeroBudgetScoresZero ==
    (pc = "scored" /\ time = 0) => score = 0

\* Witness of C5: a path that opens a flowing room, scored with budget 0.
C5_Witness ==
    /\ pc = "scored"
    /\ time = 0
    /\ \E i \in 1..Len(best_path) :
          best_path[i].kind = "Open" /\ best_path[i].room.flow_rate > 0

\* C6: monotonic score. The score of the path under budget time is at most
\* its score under budget time + 1.
C6_ScoreMonotonic ==
    pc = "scored" => score <= PathScore(best_path, time + 1)

\* Witness of C6: a scored path whose score strictly grows with one more
\* step of budget.
C6_Witness ==
    /\ pc = "scored"
    /\ time > 0
    /\ score > 0
    /\ score < PathScore(best_path, time + 1)

\* ------------------------------------------------------------------------
\* Tunnels::from_scans: C9, C10 (checked under Spec)
\* ------------------------------------------------------------------------

\* Some valve name is declared by two scans.
HasDuplicateValve(scans) ==
    \E i, j \in 1..Len(scans) : i # j /\ scans[i].valve = scans[j].valve

\* A validated input: every valve declared once, every path declared.
Validated(scans) == ~HasDuplicateValve(scans) /\ ~ScansPanic(scans)

RECURSIVE DeclaredPaths(_, _, _)
\* The tunnel list declared for valve: the paths of the scans that declare
\* it, from position i on, in scan order.
DeclaredPaths(scans, valve, i) ==
    IF i > Len(scans) THEN << >>
    ELSE (IF scans[i].valve = valve THEN scans[i].paths ELSE << >>)
         \o DeclaredPaths(scans, valve, i + 1)

Reverse(seq) == [i \in 1..Len(seq) |-> seq[Len(seq) + 1 - i]]

\* The valve names read back by iterating neighbors of the room of valve.
NeighborValves(tuns, valve) ==
    LET nbrs == Neighbors(tuns.room_graph, tuns.room_nodes[valve])
    IN [i \in 1..Len(nbrs) |-> tuns.room_graph.nodes[nbrs[i]].valve]

\* C9 as stated: round-trip construction. Once the graph of a validated
\* input is built, iterating the neighbors of every scan's room yields the
\* scan's declared paths, element for element, in declaration order.
C9_NeighborsInDeclarationOrder ==
    (pc = "built" /\ Validated(tunnel_scans)) =>
        \A i \in 1..Len(tunnel_scans) :
            NeighborValves(tunnels, tunnel_scans[i].valve)
                = tunnel_scans[i].paths

\* C9 amended: once the graph is built, iterating the neighbors of every
\* scan's room yields the tunnel list declared for that valve in REVERSE
\* declaration order (for a valve declared once: its scan's paths reversed).
C9_NeighborsInReverseDeclarationOrder ==
    pc = "built" =>
        \A i \in 1..Len(tunnel_scans) :
            NeighborValves(tunnels, tunnel_scans[i].valve)
                = Reverse(DeclaredPaths(tunnel_scans, tunnel_scans[i].valve, 1))

\* Witness of C9: a built graph of a validated input with a scan that
\* declares two different paths.
C9_Witness ==
    /\ pc = "built"
    /\ Validated(tunnel_scans)
    /\ \E i \in 1..Len(tunnel_scans) :
          /\ Len(tunnel_scans[i].paths) = 2
          /\ tunnel_scans[i].paths[1] # tunnel_scans[i].paths[2]

\* C10: an input that declares a valve twice produces no graph: the
\* program never gets past from_scans with it.
C10_DuplicateValveRejected ==
    HasDuplicateValve(tunnel_scans) => pc \in {"read", "panic_from_scans"}

\* ------------------------------------------------------------------------
\* find_best_path: C1, C2, C3, C7, C8 (checked under Spec)
\* ------------------------------------------------------------------------

\* The Room a valve name resolves to (lines 172-173).
RoomOf(tuns, valve) == tuns.room_graph.nodes[tuns.room_nodes[valve]]

RECURSIVE ExecutablePaths(_, _, _)
\* The action sequences of at most n steps executable by an actor at valve:
\* an Open names the actor's room, a Go follows a tunnel and moves the actor.
ExecutablePaths(tuns, valve, n) ==
    IF n = 0 THEN {<< >>}
    ELSE LET nbrs == NeighborValves(tuns, valve)
         IN {<< >>}
            \cup {<< Open(RoomOf(tuns, valve)) >> \o p :
                     p \in ExecutablePaths(tuns, valve, n - 1)}
            \cup UNION {{<< Go(RoomOf(tuns, nbrs[k])) >> \o p :
                            p \in ExecutablePaths(tuns, nbrs[k], n - 1)} :
                        k \in 1..Len(nbrs)}

SetMax(S) == CHOOSE x \in S : \A y \in S : y <= x

\* C1: optimality. For a validated graph the score of the returned path
\* under the budget is the maximum score, under that budget, of the action
\* sequences of at most time steps executable from the starting room.
C1_BestPathIsOptimal ==
    (pc = "done" /\ Validated(tunnel_scans)) =>
        score = SetMax({PathScore(p, time) :
                          p \in ExecutablePaths(tunnels, starting_room, time)})

\* C2: the two-node example. From A with budget 3 the search returns
\* [Go B, Open B] and its score under 3 is 5.
C2_TwoNodeExample ==
    (pc = "done" /\ tunnel_scans = ExampleScans
       /\ starting_room = "A" /\ time = 3) =>
        /\ best_path = << Go(Room("B", 5)), Open(Room("B", 5)) >>
        /\ score = 5

\* The search ran on a single room without tunnels, from that room.
IsolatedDone ==
    /\ pc = "done"
    /\ Len(tunnel_scans) = 1
    /\ tunnel_scans[1].paths = << >>
    /\ starting_room = tunnel_scans[1].valve

\* C3 as stated: on a single room of flow rate r without tunnels the
\* returned path scores r * (t - 1) for t >= 1, and 0 for t = 0.
C3_IsolatedScoresRateTimesTMinusOne ==
    IsolatedDone =>
        score = IF time = 0 THEN 0
                ELSE tunnel_scans[1].flow_rate * (time - 1)

\* C3 amended: on a single room of flow rate r without tunnels the returned
\* path scores r * t for every t >= 0.
C3_IsolatedScoresRateTimesT ==
    IsolatedDone => score = tunnel_scans[1].flow_rate * time

\* Witness of C3: a flowing isolated room searched with a budget of 2 or more.
C3_Witness ==
    /\ IsolatedDone
    /\ tunnel_scans[1].flow_rate > 0
    /\ time >= 2

\* A search with a positive budget has returned.
Searched == pc \in {"found", "done"} /\ time > 0

\* The candidate of this call that goes to valve / that opens the room.
GoCandidate(valve) ==
    PathAdd(FindBestPath(tunnels, valve, time - 1), Go(RoomOf(tunnels, valve)))
OpenCandidate ==
    PathAdd(FindBestPath(tunnels, starting_room, time - 1),
            Open(RoomOf(tunnels, starting_room)))

\* The scores the call ranks its candidates by.
GoKey(valve) == PathScore(GoCandidate(valve), time)
OpenKey == PathScore(OpenCandidate, time)

\* The tunnel list declared for the starting room.
StartPaths == DeclaredPaths(tunnel_scans, starting_room, 1)

MaxKey ==
    SetMax({OpenKey} \cup {GoKey(StartPaths[k]) : k \in 1..Len(StartPaths)})

\* The positions of the declared tunnel list whose candidate scores MaxKey.
TiedNeighbors == {k \in 1..Len(StartPaths) : GoKey(StartPaths[k]) = MaxKey}

FirstTied == CHOOSE k \in TiedNeighbors : \A j \in TiedNeighbors : k <= j

\* Two different neighbors have equal score and no candidate scores higher.
TieAmongNeighbors ==
    \E j, k \in TiedNeighbors : StartPaths[j] # StartPaths[k]

\* C7 as stated: when two neighbors tie at the highest score, the search
\* returns the candidate of the tied neighbor declared first.
C7_FirstDeclaredNeighborWins ==
    (Searched /\ TieAmongNeighbors) =>
        best_path = GoCandidate(StartPaths[FirstTied])

\* C7 amended: when two neighbors tie at the highest score and the Open
\* candidate scores strictly lower, the search returns the candidate of the
\* tied neighbor declared first.
C7_FirstDeclaredNeighborWinsOverLowerOpen ==
    (Searched /\ TieAmongNeighbors /\ OpenKey < MaxKey) =>
        best_path = GoCandidate(StartPaths[FirstTied])

\* Witness of C7: in a validated graph two different neighbors tie above
\* the Open candidate.
C7_Witness ==
    /\ Searched
    /\ Validated(tunnel_scans)
    /\ TieAmongNeighbors
    /\ OpenKey < MaxKey

\* A Go candidate and the Open candidate both score the maximum.
GoTiesOpen == Searched /\ TiedNeighbors # {} /\ OpenKey = MaxKey

\* C8 as stated: when a Go candidate and the Open candidate tie at the
\* highest score, the search returns a Go candidate.
C8_GoWinsTieWithOpen ==
    GoTiesOpen => best_path[Len(best_path)].kind = "Go"

\* C8 amended: when a Go candidate and the Open candidate tie at the highest
\* score, the search returns the Open candidate.
C8_OpenWinsTieWithGo ==
    GoTiesOpen => best_path = OpenCandidate

\* Witness of C8: in a validated graph a Go candidate and the Open
\* candidate tie at a positive score.
C8_Witness == GoTiesOpen /\ Validated(tunnel_scans) /\ MaxKey > 0

\* ------------------------------------------------------------------------
\* from_scans and find_best_path: C11, C12, C13, C14, C19, C20 (under Spec)
\* ------------------------------------------------------------------------

\* C11: an input with a scan that names an undeclared neighbor makes
\* from_scans hand back a dangling-edge error value: the process is never
\* aborted by it.
C11_DanglingEdgeIsRecoverableError ==
    ScansPanic(tunnel_scans) => pc # "panic_from_scans"

\* C12: a search whose starting room is absent from the graph panics for
\* every budget, 0 included: it never returns a path, and the panic state is
\* only ever entered with an absent starting room.
C12_AbsentStartPanicsForEveryBudget ==
    /\ pc \in {"found", "done"} => starting_room \in DOMAIN tunnels.room_nodes
    /\ pc = "panic_find_best_path" =>
           starting_room \notin DOMAIN tunnels.room_nodes

\* Witness of C12: the search of a non-empty graph panicked with budget 0.
C12_Witness ==
    /\ pc = "panic_find_best_path"
    /\ time = 0
    /\ tunnels.room_nodes # << >>

\* C13: zero budget. A search with budget 0 returns the empty path, and the
\* empty path scores 0 under every budget.
C13_ZeroBudgetReturnsEmptyPath ==
    (pc \in {"found", "done"} /\ time = 0) =>
        /\ best_path = PathEmpty
        /\ \A t \in 0..MaxTime : PathScore(best_path, t) = 0

\* Witness of C13: a zero-budget search from a flowing room with a tunnel.
C13_Witness ==
    /\ pc \in {"found", "done"}
    /\ time = 0
    /\ RoomOf(tunnels, starting_room).flow_rate > 0
    /\ Len(StartPaths) > 0

\* C14: length bound. The returned path has exactly time steps (so never
\* more than time).
C14_PathHasExactlyTimeSteps ==
    pc \in {"found", "done"} => Len(best_path) = time

\* Witness of C14: a search with the largest budget from a room with a
\* tunnel.
C14_Witness ==
    /\ pc = "found"
    /\ time = MaxTime
    /\ Len(StartPaths) > 0

RECURSIVE Levels(_, _, _)
\* The calls << room, t >> with t > 0 that the search from room_name with
\* budget t makes, itself included.
Levels(tuns, room_name, t) ==
    IF t = 0 THEN {}
    ELSE LET candidate_steps == CandidateSteps(tuns, room_name)
         IN {<< room_name, t >>}
            \cup UNION {Levels(tuns, candidate_steps[i].room.valve, t - 1) :
                           i \in 1..Len(candidate_steps)}

\* At the call level the returned path has the highest score under key
\* among the call's candidates.
ChoiceIsMaxUnder(level, key) ==
    LET paths == CandidatePaths(tunnels, level[1], level[2])
        chosen == FindBestPath(tunnels, level[1], level[2])
    IN \A i \in 1..Len(paths) :
           PathScore(paths[i], key) <= PathScore(chosen, key)

\* C19 as stated: every level of the search ranks its candidates by their
\* score under the original total budget: the path a level returns has the
\* highest score under that budget among the level's candidates.
C19_RanksByOriginalBudget ==
    pc \in {"found", "done"} =>
        \A level \in Levels(tunnels, starting_room, time) :
            ChoiceIsMaxUnder(level, time)

\* C19 amended: every level of the search ranks its candidates by their
\* score under the time remaining at that level: the path a level returns
\* has the highest score under the level's own time among its candidates.
C19_RanksByRemainingTime ==
    pc \in {"found", "done"} =>
        \A level \in Levels(tunnels, starting_room, time) :
            ChoiceIsMaxUnder(level, level[2])

\* Witness of C19: a level below the top whose two candidates are ordered
\* one way under the level's time and the other way under the original
\* budget.
C19_Witness ==
    /\ pc \in {"found", "done"}
    /\ \E level \in Levels(tunnels, starting_room, time) :
          /\ level[2] < time
          /\ LET paths == CandidatePaths(tunnels, level[1], level[2])
             IN \E i, j \in 1..Len(paths) :
                   /\ PathScore(paths[i], level[2]) > PathScore(paths[j], level[2])
                   /\ PathScore(paths[i], time) < PathScore(paths[j], time)

\* C20: in a validated graph the first step of the returned path is an
\* action available at the starting room: Open of the starting room or Go
\* to one of its neighbors.
C20_FirstStepAvailableAtStart ==
    (Searched /\ Validated(tunnel_scans)) =>
        best_path[1] \in
            {Open(RoomOf(tunnels, starting_room))}
            \cup {Go(RoomOf(tunnels, StartPaths[k])) : k \in 1..Len(StartPaths)}

\* ------------------------------------------------------------------------
\* Path::score against its definition: C18 (checked under PathSpec)
\* ------------------------------------------------------------------------

\* The distinct rooms opened by the steps at indices 0..k of steps.
OpenedThrough(steps, k) ==
    {steps[i].room : i \in {j \in 1..Len(steps) :
                               j <= k + 1 /\ steps[j].kind = "Open"}}

RECURSIVE ReferenceScore(_, _)
\* Sum over k = 0..T-1 of the total flow of the distinct rooms opened at
\* indices <= k.
ReferenceScore(steps, T) ==
    IF T = 0 THEN 0
    ELSE ReferenceScore(steps, T - 1)
         + FlowRateSum(OpenedThrough(steps, T - 1))

\* C18: the score of a path under budget T is the reference sum; once T
\* covers the whole path one more step of budget adds the total flow of all
\* distinct rooms the path opens; the steps at indices >= T have no effect.
C18_ScoreIsReferenceSum ==
    pc = "scored" =>
        /\ score = ReferenceScore(best_path, time)
        /\ time >= Len(best_path) =>
               PathScore(best_path, time + 1) - score
                   = FlowRateSum(OpenedThrough(best_path, Len(best_path)))
        /\ time < Len(best_path) =>
               PathScore(SubSeq(best_path, 1, time), time) = score

\* Witness of C18: a scored path that opens a flowing room within the budget
\* and another flowing room at an index past the budget.
C18_Witness ==
    /\ pc = "scored"
    /\ score > 0
    /\ \E i, j \in 1..Len(best_path) :
          /\ i <= time /\ time < j
          /\ best_path[i].kind = "Open" /\ best_path[i].room.flow_rate > 0
          /\ best_path[j].kind = "Open" /\ best_path[j].room.flow_rate > 0
          /\ best_path[i].room # best_path[j].room

\* ------------------------------------------------------------------------
\* Day 8: TreePatch
\* ------------------------------------------------------------------------

\* struct Tree { height }
Tree(height) == [height |-> height]

\* const DIRECTIONS
DIRECTIONS == << "TopToBottom", "BottomToTop", "LeftToRight", "RightToLeft" >>

\* Option<usize>: None is the empty set, Some(x) the singleton of x.
None == {}
Some(x) == {x}

\* TreePatch::width
Width(patch) == patch.width

\* TreePatch::height: trees.len() / width (a division by zero for width 0;
\* only applied to a patch that holds trees, whose width is positive).
Height(patch) == Len(patch.trees) \div Width(patch)

\* TreePatch::indices: 0..trees.len()
Indices(patch) == 0..(Len(patch.trees) - 1)

\* self.trees[index]: the Vec is indexed from 0.
TreeAt(patch, i) == patch.trees[i + 1]

\* TreePatch::location
Location(patch, i) == << i \div patch.width, i % patch.width >>

\* Variant of TreePatch::index: the row multiplied by the height.
IndexRowTimesHeight(patch, location) ==
    LET row == location[1]
        col == location[2]
    IN IF row < 0 \/ col < 0 THEN None
       ELSE IF row < Height(patch) /\ col < Width(patch)
            THEN Some((row * Height(patch)) + col)
            ELSE None

\* TreePatch::index: None when a coordinate does not convert to usize (it is
\* negative) or lies outside the patch, else Some(row * width + col).
Index(patch, location) ==
    LET row == location[1]
        col == location[2]
    IN IF row < 0 \/ col < 0 THEN None
       ELSE IF row < Height(patch) /\ col < Width(patch)
            THEN Some((row * Width(patch)) + col)
            ELSE None

\* Variant of the strides: every direction walks the opposite way.
StrideReversed(direction) ==
    CASE direction = "TopToBottom" -> << 1, 0 >>
      [] direction = "BottomToTop" -> << -1, 0 >>
      [] direction = "LeftToRight" -> << 0, 1 >>
      [] direction = "RightToLeft" -> << 0, -1 >>

\* visibility_candidates: (row_stride, col_stride) of a direction.
Stride(direction) ==
    CASE direction = "TopToBottom" -> << -1, 0 >>
      [] direction = "BottomToTop" -> << 1, 0 >>
      [] direction = "LeftToRight" -> << 0, -1 >>
      [] direction = "RightToLeft" -> << 0, 1 >>

RECURSIVE CandidatesFrom(_, _, _, _)
\* The from_fn closure of visibility_candidates called until it yields
\* None: it first advances (row, col) by the stride, then looks the new
\* location up.
CandidatesFrom(patch, row, col, stride) ==
    LET index_ == Index(patch, << row + stride[1], col + stride[2] >>)
    IN IF index_ = None THEN << >>
       ELSE << CHOOSE i \in index_ : TRUE >>
            \o CandidatesFrom(patch, row + stride[1], col + stride[2], stride)

\* TreePatch::visibility_candidates
VisibilityCandidates(patch, i, direction) ==
    LET location == Location(patch, i)
    IN CandidatesFrom(patch, location[1], location[2], Stride(direction))

\* Variant of is_visible_from: a candidate of equal height does not hide
\* the tree.
IsVisibleFromOrEqual(patch, i, direction) ==
    LET candidates == VisibilityCandidates(patch, i, direction)
    IN \A k \in 1..Len(candidates) :
           TreeAt(patch, candidates[k]).height <= TreeAt(patch, i).height

\* TreePatch::is_visible_from
IsVisibleFrom(patch, i, direction) ==
    LET candidates == VisibilityCandidates(patch, i, direction)
    IN \A k \in 1..Len(candidates) :
           TreeAt(patch, candidates[k]).height < TreeAt(patch, i).height

\* TreePatch::is_visible
IsVisible(patch, i) ==
    \E k \in 1..Len(DIRECTIONS) : IsVisibleFrom(patch, i, DIRECTIONS[k])

\* ------------------------------------------------------------------------
\* Specification TreeSpec: day 8 main
\* ------------------------------------------------------------------------

InitTree ==
    /\ pc = "parse"
    /\ tunnel_scans = << >>
    /\ tunnels = NoTunnels
    /\ starting_room = "AA"
    /\ time = 0
    /\ best_path = PathEmpty
    /\ score = 0
    /\ tree_patch = TreePatchNew
    /\ index = 0
    /\ total_visible_trees = 0
    /\ OtherDaysIdle

\* main, lines 9-12: one more line of stdin, a row of decimal digits, handed
\* to parse_row; an Err ends main. The first non-empty row sets the width.
ParseRow ==
    /\ pc = "parse"
    /\ Len(tree_patch.trees) < MaxRows * MaxWidth
    /\ tree_patch.width > 0 => Height(tree_patch) < MaxRows
    /\ \E row \in SeqUpTo(0..MaxTreeHeight, MaxWidth) :
          \/ /\ tree_patch.width \in {0, Len(row)}
             /\ tree_patch' =
                    [width |-> Len(row),
                     trees |-> tree_patch.trees
                               \o [k \in 1..Len(row) |-> Tree(row[k])]]
             /\ UNCHANGED pc
          \/ /\ tree_patch.width \notin {0, Len(row)}
             /\ pc' = "error_parse_row"
             /\ UNCHANGED tree_patch
    /\ UNCHANGED <<index, total_visible_trees>>
    /\ UNCHANGED tunnel_vars
    /\ UNCHANGED other_days

\* main, line 9: stdin is exhausted; the count over indices() begins.
EndOfInput ==
    /\ pc = "parse"
    /\ pc' = "count"
    /\ UNCHANGED tree_vars
    /\ UNCHANGED tunnel_vars
    /\ UNCHANGED other_days

\* main, lines 14-17: the filter closure is called with the next index and
\* the index is counted when is_visible holds.
VisitIndex ==
    /\ pc = "count"
    /\ index \in Indices(tree_patch)
    /\ total_visible_trees' =
           total_visible_trees
           + (IF IsVisible(tree_patch, index) THEN 1 ELSE 0)
    /\ index' = index + 1
    /\ UNCHANGED <<pc, tree_patch>>
    /\ UNCHANGED tunnel_vars
    /\ UNCHANGED other_days

\* main, line 18: indices() is exhausted and the total is printed.
PrintTotal ==
    /\ pc = "count"
    /\ index \notin Indices(tree_patch)
    /\ pc' = "printed"
    /\ UNCHANGED tree_vars
    /\ UNCHANGED tunnel_vars
    /\ UNCHANGED other_days

NextTree == ParseRow \/ EndOfInput \/ VisitIndex \/ PrintTotal

TreeSpec == InitTree /\ [][NextTree]_vars

\* ------------------------------------------------------------------------
\* TreePatch: C15, C16, C17 (checked under TreeSpec)
\* ------------------------------------------------------------------------

\* The filter of main has visited index i.
Visited(i) == pc \in {"count", "printed"} /\ i < index

\* C15: index/location round trip. In a patch of positive width every index
\* i of indices() has location (i / w, i % w) and index(location(i)) is
\* Some(i); index is None for every location with a negative or
\* out-of-range row or column.
C15_IndexLocationRoundTrip ==
    tree_patch.width > 0 =>
        /\ \A i \in Indices(tree_patch) :
              /\ Location(tree_patch, i)
                     = << i \div tree_patch.width, i % tree_patch.width >>
              /\ Index(tree_patch, Location(tree_patch, i)) = Some(i)
        /\ \A row \in (-2)..(MaxRows + 1), col \in (-2)..(MaxWidth + 1) :
              (\/ row < 0 \/ row >= Height(tree_patch)
               \/ col < 0 \/ col >= Width(tree_patch))
                  => Index(tree_patch, << row, col >>) = None

\* Witness of C15: the filter has visited the last index of a patch with
\* more rows than columns and at least two columns.
C15_Witness ==
    /\ tree_patch.width >= 2
    /\ Height(tree_patch) > tree_patch.width
    /\ Visited(Len(tree_patch.trees) - 1)

\* The indices of the cells strictly between the tree at index i and the
\* edge of the patch on the side the direction looks from.
Between(patch, i, direction) ==
    LET r == i \div patch.width
        c == i % patch.width
    IN {j \in Indices(patch) :
           LET rj == j \div patch.width
               cj == j % patch.width
           IN CASE direction = "TopToBottom" -> cj = c /\ rj < r
                [] direction = "BottomToTop" -> cj = c /\ rj > r
                [] direction = "LeftToRight" -> rj = r /\ cj < c
                [] direction = "RightToLeft" -> rj = r /\ cj > c}

\* The set of elements of a sequence.
Range(seq) == {seq[k] : k \in 1..Len(seq)}

\* C16: for every tree and every direction visibility_candidates yields
\* exactly the cells between the tree and the edge on that side, each once:
\* empty for a tree on that edge, never the tree itself.
C16_CandidatesAreCellsToTheEdge ==
    \A i \in Indices(tree_patch) : \A k \in 1..Len(DIRECTIONS) :
        LET candidates == VisibilityCandidates(tree_patch, i, DIRECTIONS[k])
            between == Between(tree_patch, i, DIRECTIONS[k])
        IN /\ Range(candidates) = between
           /\ Len(candidates) = Cardinality(between)
           /\ i \notin Range(candidates)
           /\ Index(tree_patch,
                    << Location(tree_patch, i)[1] + Stride(DIRECTIONS[k])[1],
                       Location(tree_patch, i)[2] + Stride(DIRECTIONS[k])[2] >>)
                  = None => candidates = << >>

\* Witness of C16: the filter has visited the centre tree of a patch of
\* three rows and three columns.
C16_Witness ==
    /\ tree_patch.width = 3
    /\ Len(tree_patch.trees) = 9
    /\ Visited(4)

\* The trees on the edge of the patch on the side the direction looks from.
EdgeIndices(patch, direction) ==
    {i \in Indices(patch) : Between(patch, i, direction) = {}}

\* Every tree of the edge line on that side is at least as tall as every
\* tree of the patch (so also when all heights are equal).
EdgeLineTallest(patch, direction) ==
    \A i \in EdgeIndices(patch, direction) : \A j \in Indices(patch) :
        TreeAt(patch, j).height <= TreeAt(patch, i).height

\* C17: is_visible_from(i, d) holds exactly when every tree between tree i
\* and the edge on side d is strictly shorter than tree i; so when the
\* heights are uniform or the edge line on side d is the tallest, exactly
\* the trees on that edge are visible from d.
C17_VisibleFromIffAllBetweenShorter ==
    \A k \in 1..Len(DIRECTIONS) :
        /\ \A i \in Indices(tree_patch) :
              IsVisibleFrom(tree_patch, i, DIRECTIONS[k])
                  <=> \A j \in Between(tree_patch, i, DIRECTIONS[k]) :
                          TreeAt(tree_patch, j).height
                              < TreeAt(tree_patch, i).height
        /\ EdgeLineTallest(tree_patch, DIRECTIONS[k]) =>
              {i \in Indices(tree_patch) :
                   IsVisibleFrom(tree_patch, i, DIRECTIONS[k])}
                  = EdgeIndices(tree_patch, DIRECTIONS[k])

\* Witness of C17: the filter has run over a patch of three rows and three
\* columns whose top row is taller than its other, equal rows.
C17_Witness ==
    /\ pc = "printed"
    /\ tree_patch.width = 3
    /\ Len(tree_patch.trees) = 9
    /\ \A i \in 0..2 : TreeAt(tree_patch, i).height = 1
    /\ \A i \in 3..8 : TreeAt(tree_patch, i).height = 0

\* ------------------------------------------------------------------------
\* find_best_path, the recursion: C21, C22, C23 (checked under Spec)
\* ------------------------------------------------------------------------

\* The outgoing tunnels of the room of valve: the edges that start at its
\* node, as positions of the edge list.
OutgoingEdges(tuns, valve) ==
    {e \in 1..Len(tuns.room_graph.edges) :
        tuns.room_graph.edges[e][1] = tuns.room_nodes[valve]}

\* C21: candidate set. At every call at room n with time t > 0 the
\* candidates are one Go per outgoing tunnel of n, to the room at the end of
\* that tunnel, followed by one Open of n as the last candidate: outdegree
\* + 1 sub-calls, each with time t - 1 and continuing from the room of its
\* step.
C21_CandidatesAreGoPerTunnelThenOpen ==
    pc \in {"found", "done"} =>
        \A level \in Levels(tunnels, starting_room, time) :
            LET n == level[1]
                t == level[2]
                out == OutgoingEdges(tunnels, n)
                steps == CandidateSteps(tunnels, n)
                paths == CandidatePaths(tunnels, n, t)
            IN /\ Len(steps) = Cardinality(out) + 1
               /\ Len(paths) = Len(steps)
               /\ steps[Len(steps)] = Open(RoomOf(tunnels, n))
               /\ \A i \in 1..(Len(steps) - 1) : steps[i].kind = "Go"
               /\ Validated(tunnel_scans) =>
                     \A node \in 1..Len(tunnels.room_graph.nodes) :
                         Cardinality({i \in 1..(Len(steps) - 1) :
                                         steps[i].room
                                             = tunnels.room_graph.nodes[node]})
                             = Cardinality({e \in out :
                                   tunnels.room_graph.edges[e][2] = node})
               /\ \A i \in 1..Len(steps) :
                     /\ paths[i] = PathAdd(FindBestPath(tunnels,
                                                        steps[i].room.valve,
                                                        t - 1),
                                           steps[i])
                     /\ Len(paths[i]) = t

\* Witness of C21: a search of a validated graph with budget 2 or more from
\* a room with two outgoing tunnels.
C21_Witness ==
    /\ pc \in {"found", "done"}
    /\ Validated(tunnel_scans)
    /\ time >= 2
    /\ Cardinality(OutgoingEdges(tunnels, starting_room)) = 2

RECURSIVE CallsSameDepth(_, _, _, _)
\* Variant of the recursion: the sub-calls are handed depth, not depth + 1.
CallsSameDepth(tuns, room_name, t, depth) ==
    {<< room_name, t, depth >>}
    \cup (IF t = 0 THEN {}
          ELSE LET candidate_steps == CandidateSteps(tuns, room_name)
               IN UNION {CallsSameDepth(tuns, candidate_steps[i].room.valve,
                                        t - 1, depth) :
                            i \in 1..Len(candidate_steps)})

RECURSIVE Calls(_, _, _, _)
\* The calls << starting_room, time, depth >> of find_best_path that the call
\* with these arguments makes, itself included: every candidate step calls
\* with the valve of its room, time - 1 and depth + 1.
Calls(tuns, room_name, t, depth) ==
    {<< room_name, t, depth >>}
    \cup (IF t = 0 THEN {}
          ELSE LET candidate_steps == CandidateSteps(tuns, room_name)
               IN UNION {Calls(tuns, candidate_steps[i].room.valve,
                               t - 1, depth + 1) :
                            i \in 1..Len(candidate_steps)})

\* C22: totality. On a validated graph a search from a room of the graph
\* returns a path and does not panic: every call it makes, at any depth,
\* looks up a room the graph holds; at every call depth + time is the
\* original budget, so the depth never exceeds it.
C22_SearchIsTotal ==
    /\ (pc \in {"found", "done"} /\ Validated(tunnel_scans)) =>
           \A call \in Calls(tunnels, starting_room, time, 0) :
               /\ call[1] \in DOMAIN tunnels.room_nodes
               /\ call[3] + call[2] = time
               /\ call[3] <= time
    /\ (pc = "panic_find_best_path" /\ Validated(tunnel_scans)) =>
           starting_room \notin DOMAIN tunnels.room_nodes

\* Witness of C22: a search of a validated graph with the largest budget
\* from a room with a tunnel to another room.
C22_Witness ==
    /\ pc = "found"
    /\ Validated(tunnel_scans)
    /\ time = MaxTime
    /\ \E k \in 1..Len(StartPaths) : StartPaths[k] # starting_room

RECURSIVE ExecutableFrom(_, _, _, _)
\* The steps at positions i, i - 1, .., 1 of steps are executable, in that
\* order, by an actor at valve: an Open names the actor's room, a Go names a
\* room at the end of a tunnel from the actor's room and moves the actor.
ExecutableFrom(tuns, valve, steps, i) ==
    IF i = 0 THEN TRUE
    ELSE IF steps[i].kind = "Open"
         THEN /\ steps[i].room = RoomOf(tuns, valve)
              /\ ExecutableFrom(tuns, valve, steps, i - 1)
         ELSE /\ \E e \in OutgoingEdges(tuns, valve) :
                    tuns.room_graph.nodes[tuns.room_graph.edges[e][2]]
                        = steps[i].room
              /\ ExecutableFrom(tuns, steps[i].room.valve, steps, i - 1)

\* C23: walk validity. For a validated graph the returned path, read from
\* its last element to its first, is executable from the starting room.
C23_ReversedPathIsExecutable ==
    (pc \in {"found", "done"} /\ Validated(tunnel_scans)) =>
        ExecutableFrom(tunnels, starting_room, best_path, Len(best_path))

\* Witness of C23: the returned path of a validated graph goes to another
\* room and opens a flowing valve there.
C23_Witness ==
    /\ pc \in {"found", "done"}
    /\ Validated(tunnel_scans)
    /\ Len(best_path) >= 2
    /\ best_path[Len(best_path)].kind = "Go"
    /\ best_path[Len(best_path)].room.valve # starting_room
    /\ \E i \in 1..(Len(best_path) - 1) :
          /\ best_path[i].kind = "Open"
          /\ best_path[i].room.flow_rate > 0
          /\ best_path[i].room.valve # starting_room

\* ------------------------------------------------------------------------
\* Day 14: World
\* ------------------------------------------------------------------------

\* struct Point { x, y }, struct Vector { x, y }
Point(x, y) == [x |-> x, y |-> y]
Vector(x, y) == [x |-> x, y |-> y]

\* const STARTING_POINT
STARTING_POINT == Point(500, 0)

\* const FALLING_SAND_VECTORS
FALLING_SAND_VECTORS == << Vector(0, 1), Vector(-1, 1), Vector(1, 1) >>

\* impl Add<Vector> for Point
PointAdd(point, vector) == Point(point.x + vector.x, point.y + vector.y)

\* impl Sub for Point
PointSub(lhs, rhs) == Vector(lhs.x - rhs.x, lhs.y - rhs.y)

Signum(n) == IF n < 0 THEN -1 ELSE IF n = 0 THEN 0 ELSE 1

\* Vector::normalize
Normalize(vector) == Vector(Signum(vector.x), Signum(vector.y))

Min2(a, b) == IF a <= b THEN a ELSE b
Max2(a, b) == IF a >= b THEN a ELSE b

\* Bounds::new
BoundsNew(point) == [min |-> point, max |-> point]

\* Bounds::add
BoundsAdd(bounds, point) ==
    [min |-> Point(Min2(bounds.min.x, point.x), Min2(bounds.min.y, point.y)),
     max |-> Point(Max2(bounds.max.x, point.x), Max2(bounds.max.y, point.y))]

\* Bounds::contains
BoundsContains(bounds, point) ==
    /\ point.x \in bounds.min.x..bounds.max.x
    /\ point.y \in bounds.min.y..bounds.max.y

\* Bounds::width, Bounds::height
BoundsWidth(bounds) == (bounds.max.x - bounds.min.x) + 1
BoundsHeight(bounds) == (bounds.max.y - bounds.min.y) + 1

\* Cells::offset, for a point the bounds contain.
Offset(cells, point) ==
    LET row == point.x - cells.bounds.min.x
        col == point.y - cells.bounds.min.y
    IN (col * BoundsWidth(cells.bounds)) + row

\* Cells::new
CellsNew(cell, bounds) ==
    [bounds |-> bounds,
     cells |-> [k \in 1..(BoundsWidth(bounds) * BoundsHeight(bounds)) |-> cell]]

\* Cells::get: None outside the bounds, else the cell at the offset.
CellsGet(cells, point) ==
    IF ~BoundsContains(cells.bounds, point) THEN None
    ELSE Some(cells.cells[Offset(cells, point) + 1])

\* IndexMut for Cells, for a point the bounds contain: cells[point] = cell.
CellsSet(cells, point, cell) ==
    [cells EXCEPT !.cells[Offset(cells, point) + 1] = cell]

\* Cells::iter: rows of y in order, x in order within a row, which is the
\* order of the offsets; position k holds the point of offset k - 1 and its
\* cell.
CellsIter(cells) ==
    [k \in 1..Len(cells.cells) |->
        << Point(cells.bounds.min.x + ((k - 1) % BoundsWidth(cells.bounds)),
                 cells.bounds.min.y + ((k - 1) \div BoundsWidth(cells.bounds))),
           cells.cells[k] >>]

RECURSIVE LinePointsFrom(_, _, _, _)
\* Line::points from current on: current is yielded and advanced by the
\* vector until it equals end, which is yielded last. The walk of a line
\* that never meets its end is cut at the first point outside the bounds,
\* where World::new panics.
LinePointsFrom(current, end, vector, bounds) ==
    IF current = end \/ ~BoundsContains(bounds, current) THEN << current >>
    ELSE << current >>
         \o LinePointsFrom(PointAdd(current, vector), end, vector, bounds)

\* Line::points
LinePoints(line, bounds) ==
    LinePointsFrom(line.start, line.end,
                   Normalize(PointSub(line.end, line.start)), bounds)

\* Path::lines: one Line per pair of consecutive points.
PathLines(path) ==
    [k \in 1..(Len(path.points) - 1) |->
        [start |-> path.points[k], end |-> path.points[k + 1]]]

RECURSIVE WorldBounds(_, _, _, _)
\* World::new, first loop: the bounds grown by point j of path i on.
WorldBounds(bounds, paths, i, j) ==
    IF i > Len(paths) THEN bounds
    ELSE IF j > Len(paths[i].points) THEN WorldBounds(bounds, paths, i + 1, 1)
    ELSE WorldBounds(BoundsAdd(bounds, paths[i].points[j]), paths, i, j + 1)

RECURSIVE RockPoints(_, _, _, _)
\* World::new, second loop: the points set to Rock, in order, from line j of
\* path i on.
RockPoints(paths, bounds, i, j) ==
    IF i > Len(paths) THEN << >>
    ELSE IF j > Len(PathLines(paths[i])) THEN RockPoints(paths, bounds, i + 1, 1)
    ELSE LinePoints(PathLines(paths[i])[j], bounds)
         \o RockPoints(paths, bounds, i, j + 1)

RECURSIVE SetRocks(_, _, _)
\* cells[point] = Cell::Rock for the points from position k on.
SetRocks(cells, points, k) ==
    IF k > Len(points) THEN cells
    ELSE SetRocks(CellsSet(cells, points[k], "Rock"), points, k + 1)

\* World::new panics: cells[point] is indexed with a point out of bounds.
WorldNewPanics(source, paths) ==
    LET bounds == WorldBounds(BoundsNew(source), paths, 1, 1)
        points == RockPoints(paths, bounds, 1, 1)
    IN \E k \in 1..Len(points) : ~BoundsContains(bounds, points[k])

\* World::new, when it does not panic.
WorldNew(source, paths) ==
    LET bounds == WorldBounds(BoundsNew(source), paths, 1, 1)
    IN [cells |-> SetRocks(CellsNew("Air", bounds),
                           RockPoints(paths, bounds, 1, 1), 1),
        source |-> source]

RECURSIVE FallTo(_, _, _)
\* The for loop of World::step over FALLING_SAND_VECTORS from position k
\* on: "out" when a candidate is out of bounds (return false), Some(point)
\* for the first Air candidate, None when every candidate is taken.
FallTo(cells, current_sand_point, k) ==
    IF k > Len(FALLING_SAND_VECTORS) THEN [out |-> FALSE, new_point |-> None]
    ELSE LET candidate_point ==
                 PointAdd(current_sand_point, FALLING_SAND_VECTORS[k])
             cell == CellsGet(cells, candidate_point)
         IN IF cell = None THEN [out |-> TRUE, new_point |-> None]
            ELSE IF cell = Some("Air")
                 THEN [out |-> FALSE, new_point |-> Some(candidate_point)]
                 ELSE FallTo(cells, current_sand_point, k + 1)

\* World::step: the world after the step and the value returned.
WorldStep(w) ==
    LET iter == CellsIter(w.cells)
        found == {k \in 1..Len(iter) : iter[k][2] = "FallingSand"}
    IN IF found = {}
       THEN [world |-> [w EXCEPT !.cells =
                            CellsSet(w.cells, w.source, "FallingSand")],
             is_running |-> TRUE]
       ELSE LET first == CHOOSE k \in found : \A j \in found : k <= j
                current_sand_point == iter[first][1]
                current_sand_cell == iter[first][2]
                fall == FallTo(w.cells, current_sand_point, 1)
            IN IF fall.out THEN [world |-> w, is_running |-> FALSE]
               ELSE IF fall.new_point = None
               THEN [world |-> [w EXCEPT !.cells =
                                    CellsSet(w.cells, current_sand_point,
                                             "SettledSand")],
                     is_running |-> TRUE]
               ELSE LET new_point == CHOOSE q \in fall.new_point : TRUE
                    IN [world |-> [w EXCEPT !.cells =
                                       CellsSet(CellsSet(w.cells, new_point,
                                                         current_sand_cell),
                                                current_sand_point, "Air")],
                        is_running |-> TRUE]

\* ------------------------------------------------------------------------
\* Specification SandSpec: day 14 main
\* ------------------------------------------------------------------------

InitSand ==
    /\ pc = "sand_read"
    /\ tunnel_scans = << >>
    /\ tunnels = NoTunnels
    /\ starting_room = "AA"
    /\ time = 0
    /\ best_path = PathEmpty
    /\ score = 0
    /\ tree_patch = TreePatchNew
    /\ index = 0
    /\ total_visible_trees = 0
    /\ OtherDaysIdle

\* The points a generated rock path may name.
PathPoints ==
    {Point(x, y) : x \in (STARTING_POINT.x - MaxReach)..(STARTING_POINT.x + MaxReach),
                   y \in STARTING_POINT.y..(STARTING_POINT.y + MaxDepth)}

\* The variables of every day but day 14.
not_sand_vars ==
    <<tunnel_vars, tree_vars, crate_vars, fs_vars, rope_vars, monkey_vars>>

\* main, lines 27-30: one more line of stdin parsed into a Path.
ReadPath ==
    /\ pc = "sand_read"
    /\ Len(sand_paths) < MaxPaths
    /\ \E n \in 1..MaxPathPoints : \E points \in [1..n -> PathPoints] :
          sand_paths' = Append(sand_paths, [points |-> points])
    /\ UNCHANGED <<pc, world, sand_steps>>
    /\ UNCHANGED not_sand_vars

\* main, line 32: World::new(STARTING_POINT, &paths), or its panic.
NewWorld ==
    /\ pc = "sand_read"
    /\ \/ /\ ~WorldNewPanics(STARTING_POINT, sand_paths)
          /\ world' = WorldNew(STARTING_POINT, sand_paths)
          /\ pc' = "sand_run"
       \/ /\ WorldNewPanics(STARTING_POINT, sand_paths)
          /\ pc' = "panic_world_new"
          /\ UNCHANGED world
    /\ UNCHANGED <<sand_paths, sand_steps>>
    /\ UNCHANGED not_sand_vars

\* main, lines 39-56: one iteration of the loop: world.step(), then break
\* or steps += 1. The model stops counting at MaxSandSteps.
SandStep ==
    /\ pc = "sand_run"
    /\ \E stepped \in {WorldStep(world)} :
          /\ world' = stepped.world
          /\ \/ /\ stepped.is_running
                /\ sand_steps' = Min2(sand_steps + 1, MaxSandSteps)
                /\ UNCHANGED pc
             \/ /\ ~stepped.is_running
                /\ pc' = "sand_done"
                /\ UNCHANGED sand_steps
    /\ UNCHANGED sand_paths
    /\ UNCHANGED not_sand_vars

NextSand == ReadPath \/ NewWorld \/ SandStep

\* The loop of main keeps running: an iteration that can be taken is taken.
SandSpec == InitSand /\ [][NextSand]_vars /\ WF_vars(SandStep)

\* ------------------------------------------------------------------------
\* World::step: C24 (checked under SandSpec)
\* ------------------------------------------------------------------------

\* C24: the simulation terminates. For every set of rock paths, once the
\* loop of main runs it eventually gets false from World::step and stops.
C24_SimulationTerminates ==
    (pc = "sand_run") ~> (pc = "sand_done")

\* ------------------------------------------------------------------------
\* Day 5: src/day5/src/main.rs
\* ------------------------------------------------------------------------

\* Bounds of the generated crate drawings and move commands.
MaxCrateRows == 2
MaxColumns == 2
MaxLabel == 3
MaxCount == 3

\* The names a crate of a generated drawing may carry.
CrateNames == {"A", "B"}

\* column_index, lines 86-89.
ColumnIndex(label) == label - 1

\* columns.entry(index).or_default(): the map with the key present.
EntryOrDefault(cols, i) ==
    [k \in (DOMAIN cols) \cup {i} |-> IF k \in DOMAIN cols THEN cols[k] ELSE << >>]

\* std::mem::take(columns.entry(index).or_default()): the map afterwards,
\* where the column is left empty.
TakeLeaves(cols, i) ==
    [k \in (DOMAIN cols) \cup {i} |-> IF k = i THEN << >> ELSE cols[k]]

\* std::mem::take(columns.entry(index).or_default()): the column taken.
TakeColumn(cols, i) == EntryOrDefault(cols, i)[i]

\* BTreeMap::insert: a value stored under a key replaces the one there.
ColumnsInsert(cols, i, column) ==
    [k \in (DOMAIN cols) \cup {i} |-> IF k = i THEN column ELSE cols[k]]

\* VecDeque::push_front; a column is kept bottom first, its back is the top.
PushFront(column, name) == << name >> \o column

\* main, lines 20-36: the containers of one row pushed to the front of
\* their columns; row[i + 1] is the chunk of index i.
RECURSIVE ParseContainers(_, _, _)
ParseContainers(cols, row, i) ==
    IF i >= Len(row) THEN cols
    ELSE IF row[i + 1] = None THEN ParseContainers(cols, row, i + 1)
    ELSE LET name == CHOOSE n \in row[i + 1] : TRUE
         IN  ParseContainers(
                 ColumnsInsert(cols, i, PushFront(TakeColumn(cols, i), name)),
                 row, i + 1)

\* from_column.drain(from_column.len() - count..): what stays in the column.
DrainKeeps(column, count) == SubSeq(column, 1, Len(column) - count)

\* from_column.drain(from_column.len() - count..).rev(): the crates popped,
\* topmost first.
DrainPopped(column, count) ==
    Reverse(SubSeq(column, Len(column) - count + 1, Len(column)))

\* main, line 69: the range start underflows or lies past the end.
DrainPanics(column, count) == count > Len(column)

\* main, lines 64-73: one move command applied to the columns.
MoveCrates(cols, count, from_label, to_label) ==
    LET from_index  == ColumnIndex(from_label)
        to_index    == ColumnIndex(to_label)
        from_column == TakeColumn(cols, from_index)
        taken_from  == TakeLeaves(cols, from_index)
        to_column   == TakeColumn(taken_from, to_index)
        taken_to    == TakeLeaves(taken_from, to_index)
        popped      == DrainPopped(from_column, count)
    IN  ColumnsInsert(
            ColumnsInsert(taken_to, from_index, DrainKeeps(from_column, count)),
            to_index, to_column \o popped)

\* The column a move command draws from, as main takes it at line 66.
FromColumnOf(cols, from_label) == TakeColumn(cols, ColumnIndex(from_label))

\* ------------------------------------------------------------------------
\* Specification CrateSpec: day 5 main
\* ------------------------------------------------------------------------

InitCrates ==
    /\ pc = "crate_rows"
    /\ tunnel_scans = << >>
    /\ tunnels = NoTunnels
    /\ starting_room = "AA"
    /\ time = 0
    /\ best_path = PathEmpty
    /\ score = 0
    /\ tree_patch = TreePatchNew
    /\ index = 0
    /\ total_visible_trees = 0
    /\ OtherDaysIdle

\* The variables of every day but day 5.
not_crate_vars ==
    <<tunnel_vars, tree_vars, sand_vars, fs_vars, rope_vars, monkey_vars>>

\* The rows of containers a drawing may hold: every chunk is blank or one
\* container, and the line starts with a container after trimming.
CrateRows ==
    {row \in UNION {[1..n -> {None} \cup {Some(c) : c \in CrateNames}] :
                        n \in 1..MaxColumns} :
        \E k \in 1..Len(row) : row[k] # None}

\* main, lines 15-36: one row of shipping containers parsed.
ParseCrateRow ==
    /\ pc = "crate_rows"
    /\ \A i \in DOMAIN columns : Len(columns[i]) < MaxCrateRows
    /\ \E row \in CrateRows : columns' = ParseContainers(columns, row, 0)
    /\ UNCHANGED <<pc, move_command>>
    /\ UNCHANGED not_crate_vars

\* main, lines 37-40: the line with the column labels ends the drawing.
EndOfDrawing ==
    /\ pc = "crate_rows"
    /\ pc' = "crate_moves"
    /\ UNCHANGED crate_vars
    /\ UNCHANGED not_crate_vars

\* main, lines 43-74: one move command parsed and applied, or the panic
\* of the drain at line 69.
Move ==
    /\ pc = "crate_moves"
    /\ \E count \in 0..MaxCount, from_column \in 1..MaxLabel,
          to_column \in 1..MaxLabel :
          /\ move_command' = [count |-> count, from_column |-> from_column,
                              to_column |-> to_column]
          /\ \/ /\ ~DrainPanics(FromColumnOf(columns, from_column), count)
                /\ columns' = MoveCrates(columns, count, from_column, to_column)
                /\ UNCHANGED pc
             \/ /\ DrainPanics(FromColumnOf(columns, from_column), count)
                /\ pc' = "panic_drain"
                /\ UNCHANGED columns
    /\ UNCHANGED not_crate_vars

\* main, lines 76-83: the input ends and the top crates are printed.
PrintTopCrates ==
    /\ pc = "crate_moves"
    /\ pc' = "crate_done"
    /\ UNCHANGED crate_vars
    /\ UNCHANGED not_crate_vars

NextCrates == ParseCrateRow \/ EndOfDrawing \/ Move \/ PrintTopCrates

CrateSpec == InitCrates /\ [][NextCrates]_vars

\* ------------------------------------------------------------------------
\* The move loop: C25 (checked under CrateSpec)
\* ------------------------------------------------------------------------

\* The number of crates held by all the columns.
RECURSIVE TotalCrates(_)
TotalCrates(cols) ==
    IF DOMAIN cols = {} THEN 0
    ELSE LET i == CHOOSE k \in DOMAIN cols : TRUE
         IN  Len(cols[i]) + TotalCrates([k \in (DOMAIN cols) \ {i} |-> cols[k]])

\* A step of the move loop that applied its command: the drain did not
\* panic and the loop goes on.
MoveApplied == pc = "crate_moves" /\ pc' = "crate_moves"

\* C25: crate conservation. Every move whose count is at most the height of
\* column a leaves the total number of crates unchanged, for every pair of
\* labels a and b, a = b included.
C25_MoveConservesCrates ==
    [][MoveApplied => TotalCrates(columns') = TotalCrates(columns)]_vars

\* ------------------------------------------------------------------------
\* Day 7: src/day7/src/main.rs
\* ------------------------------------------------------------------------

\* Bounds of the generated terminal sessions.
MaxPathDepth == 1
MaxFileSize == 2
MaxTotalSize == 3

\* The file names a generated session may use.
FileNames == {"a", "b"}

\* Directory::empty, and FilesystemEntry::dir.
DirectoryEmpty == [kind |-> "dir", total_size |-> 0]
FilesystemEntryDir == DirectoryEmpty

\* FilesystemEntry::File(File { size }).
FilesystemEntryFile(size) == [kind |-> "file", size |-> size]

\* The filesystem is the tree of nested HashMaps, kept as the map from the
\* path of an entry (its names from the root down) to the entry; the root
\* directory has the empty path.
FilesystemNew == [p \in {<< >>} |-> FilesystemEntryDir]

\* Path::root, Path::up (Vec::pop leaves an empty vector empty), Path::enter.
FsPathRoot == << >>
FsPathUp(components) ==
    IF components = << >> THEN << >>
    ELSE SubSeq(components, 1, Len(components) - 1)
FsPathEnter(components, filename) == Append(components, filename)

\* FilesystemEntry::size.
EntrySize(entry) ==
    IF entry.kind = "dir" THEN entry.total_size ELSE entry.size

\* Whether the path q names the entry at p or an entry below it.
IsAtOrBelow(p, q) == Len(q) >= Len(p) /\ SubSeq(q, 1, Len(p)) = p

\* FilesystemEntry::insert, lines 157-170: total_size += entry_size on the
\* root and on the directory of every component of current_directory in
\* turn; a component that is missing or a file ends the walk with an error,
\* after the directories above it were already increased.
RECURSIVE AddSizeAlong(_, _, _, _)
AddSizeAlong(fs, components, k, entry_size) ==
    LET prefix == SubSeq(components, 1, k)
    IN  IF k > Len(components) THEN [fs |-> fs, ok |-> TRUE]
        ELSE IF prefix \notin DOMAIN fs THEN [fs |-> fs, ok |-> FALSE]
        ELSE IF fs[prefix].kind # "dir" THEN [fs |-> fs, ok |-> FALSE]
        ELSE AddSizeAlong(
                 [fs EXCEPT ![prefix] =
                     [kind |-> "dir", total_size |-> @.total_size + entry_size]],
                 components, k + 1, entry_size)

\* dir.entries.insert(filename, entry), line 172: the entry stored under
\* the name replaces the one there, and with it everything below it.
StoreEntry(fs, path, entry) ==
    [p \in {q \in DOMAIN fs : ~IsAtOrBelow(path, q)} \cup {path} |->
        IF p = path THEN entry ELSE fs[p]]

\* FilesystemEntry::insert, lines 150-175.
FilesystemInsert(fs, components, filename, entry) ==
    LET walked == AddSizeAlong(fs, components, 0, EntrySize(entry))
    IN  IF walked.ok
        THEN [fs |-> StoreEntry(walked.fs, Append(components, filename), entry),
              ok |-> TRUE]
        ELSE walked

\* ------------------------------------------------------------------------
\* Specification FsSpec: day 7 main
\* ------------------------------------------------------------------------

InitFs ==
    /\ pc = "fs_prompt"
    /\ tunnel_scans = << >>
    /\ tunnels = NoTunnels
    /\ starting_room = "AA"
    /\ time = 0
    /\ best_path = PathEmpty
    /\ score = 0
    /\ tree_patch = TreePatchNew
    /\ index = 0
    /\ total_visible_trees = 0
    /\ SandIdle
    /\ CratesIdle
    /\ RopeIdle
    /\ MonkeysIdle
    /\ filesystem = FilesystemNew
    /\ current_directory = FsPathRoot

\* The variables of every day but day 7.
not_fs_vars ==
    <<tunnel_vars, tree_vars, sand_vars, crate_vars, rope_vars, monkey_vars>>

\* main, line 39: "$ cd /".
CdRoot ==
    /\ pc = "fs_prompt"
    /\ current_directory' = FsPathRoot
    /\ UNCHANGED <<pc, filesystem>>
    /\ UNCHANGED not_fs_vars

\* main, line 40: "$ cd ..".
CdUp ==
    /\ pc = "fs_prompt"
    /\ current_directory' = FsPathUp(current_directory)
    /\ UNCHANGED <<pc, filesystem>>
    /\ UNCHANGED not_fs_vars

\* main, line 41: "$ cd name"; the name is not looked up.
CdEnter ==
    /\ pc = "fs_prompt"
    /\ Len(current_directory) < MaxPathDepth
    /\ \E subpath \in FileNames :
          current_directory' = FsPathEnter(current_directory, subpath)
    /\ UNCHANGED <<pc, filesystem>>
    /\ UNCHANGED not_fs_vars

\* main, line 42: "$ ls" starts the loop over the lines of its output.
Ls ==
    /\ pc = "fs_prompt"
    /\ pc' = "fs_ls"
    /\ UNCHANGED fs_vars
    /\ UNCHANGED not_fs_vars

\* main, lines 43-77: one line of ls output parsed and inserted; an error
\* of insert ends main.
LsLine ==
    /\ pc = "fs_ls"
    /\ \E filename \in FileNames :
       \E filesystem_entry \in
              {FilesystemEntryDir} \cup
              {FilesystemEntryFile(size) : size \in 1..MaxFileSize} :
          /\ filesystem[<< >>].total_size + EntrySize(filesystem_entry)
                 <= MaxTotalSize
          /\ \E inserted \in {FilesystemInsert(filesystem, current_directory,
                                               filename, filesystem_entry)} :
                /\ filesystem' = inserted.fs
                /\ \/ /\ inserted.ok
                      /\ UNCHANGED pc
                   \/ /\ ~inserted.ok
                      /\ pc' = "fs_error"
    /\ UNCHANGED current_directory
    /\ UNCHANGED not_fs_vars

\* main, lines 43-52: the next line is a prompt, the ls loop breaks.
LsEnd ==
    /\ pc = "fs_ls"
    /\ pc' = "fs_prompt"
    /\ UNCHANGED fs_vars
    /\ UNCHANGED not_fs_vars

\* main, lines 23 and 82: the input ends, between commands or inside the
\* output of ls, and main goes on to the directory sizes.
EndOfSession ==
    /\ pc \in {"fs_prompt", "fs_ls"}
    /\ pc' = "fs_done"
    /\ UNCHANGED fs_vars
    /\ UNCHANGED not_fs_vars

NextFs == CdRoot \/ CdUp \/ CdEnter \/ Ls \/ LsLine \/ LsEnd \/ EndOfSession

FsSpec == InitFs /\ [][NextFs]_vars

\* ------------------------------------------------------------------------
\* FilesystemEntry::insert: C26 (checked under FsSpec)
\* ------------------------------------------------------------------------

\* The sum of the sizes of the files named by a set of paths.
RECURSIVE SumOfFileSizes(_, _)
SumOfFileSizes(fs, paths) ==
    IF paths = {} THEN 0
    ELSE LET p == CHOOSE q \in paths : TRUE
         IN  fs[p].size + SumOfFileSizes(fs, paths \ {p})

\* The files currently stored in the subtree of the directory at a path.
FilesBelow(fs, dir_path) ==
    {q \in DOMAIN fs : IsAtOrBelow(dir_path, q) /\ fs[q].kind = "file"}

\* C26: directory sizes. After any sequence of successful inserts, the
\* total_size of every directory equals the sum of the sizes of the files
\* currently stored in its subtree, also when the same filename was
\* inserted into the same directory more than once.
C26_TotalSizeIsSumOfStoredFiles ==
    pc # "fs_error" =>
        \A p \in DOMAIN filesystem :
            filesystem[p].kind = "dir" =>
                filesystem[p].total_size =
                    SumOfFileSizes(filesystem, FilesBelow(filesystem, p))

\* ------------------------------------------------------------------------
\* Day 9: src/day9/src/main.rs
\* ------------------------------------------------------------------------

\* Bounds of the generated ropes and motions: the number of knots, how far
\* the head may go from the origin, and how many positions the last knot
\* may have visited before another move is generated.
MaxKnots == 3
MaxCoord == 2
MaxVisited == 4

Position(x, y) == [x |-> x, y |-> y]

\* Position::NEIGHBOR_OFFSETS, lines 127-137.
NEIGHBOR_OFFSETS ==
    << Vector(-1, -1), Vector(-1, 0), Vector(-1, 1),
       Vector(0, -1),  Vector(0, 0),  Vector(0, 1),
       Vector(1, -1),  Vector(1, 0),  Vector(1, 1) >>

\* impl Add<Vector> for Position, impl Sub<Position> for Position.
PositionAdd(position, vector) ==
    Position(position.x + vector.x, position.y + vector.y)
PositionSub(lhs, rhs) == Vector(lhs.x - rhs.x, lhs.y - rhs.y)

\* Vector::normalize, lines 163-176.
VectorNormalize(vector) ==
    Vector(IF vector.x <= -1 THEN -1 ELSE IF vector.x = 0 THEN 0 ELSE 1,
           IF vector.y <= -1 THEN -1 ELSE IF vector.y = 0 THEN 0 ELSE 1)

\* Position::is_touching, lines 139-147.
IsTouching(self, other) ==
    \E k \in 1..Len(NEIGHBOR_OFFSETS) :
        PositionAdd(self, NEIGHBOR_OFFSETS[k]) = other

\* Direction and Direction::vector, lines 225-241.
Directions == {"Up", "Down", "Left", "Right"}
DirectionVector(direction) ==
    CASE direction = "Up"    -> Vector(0, 1)
      [] direction = "Down"  -> Vector(0, -1)
      [] direction = "Left"  -> Vector(-1, 0)
      [] direction = "Right" -> Vector(1, 0)

\* A tail that is left where it is whatever the head does.
AdjustTailPositionStays(head, tail) == tail

\* adjust_tail_position, lines 110-118.
AdjustTailPosition(head, tail) ==
    IF IsTouching(head, tail) THEN tail
    ELSE PositionAdd(tail, VectorNormalize(PositionSub(head, tail)))

\* Rope::new, lines 50-56.
RopeNew(knots) ==
    [knot_positions |-> [k \in 1..knots |-> Position(0, 0)],
     last_positions |-> {Position(0, 0)}]

\* Rope::move_head, lines 64-66: the windows [head, tail] from the first
\* pair on, each tail set from the head the window before it has left.
RECURSIVE AdjustKnots(_, _)
AdjustKnots(knot_positions, k) ==
    IF k >= Len(knot_positions) THEN knot_positions
    ELSE AdjustKnots(
             [knot_positions EXCEPT
                 ![k + 1] = AdjustTailPosition(knot_positions[k],
                                               knot_positions[k + 1])],
             k + 1)

\* Rope::move_head, lines 58-71.
RopeMoveHead(r, direction) ==
    LET moved ==
            IF Len(r.knot_positions) = 0 THEN r.knot_positions
            ELSE [r.knot_positions EXCEPT
                     ![1] = PositionAdd(@, DirectionVector(direction))]
        adjusted == AdjustKnots(moved, 1)
    IN  [knot_positions |-> adjusted,
         last_positions |->
             IF Len(adjusted) = 0 THEN r.last_positions
             ELSE r.last_positions \cup {adjusted[Len(adjusted)]}]

\* ------------------------------------------------------------------------
\* Specification RopeSpec: a rope of any length under move_head
\* ------------------------------------------------------------------------

InitRope ==
    /\ pc = "rope_moves"
    /\ tunnel_scans = << >>
    /\ tunnels = NoTunnels
    /\ starting_room = "AA"
    /\ time = 0
    /\ best_path = PathEmpty
    /\ score = 0
    /\ tree_patch = TreePatchNew
    /\ index = 0
    /\ total_visible_trees = 0
    /\ SandIdle
    /\ CratesIdle
    /\ FsIdle
    /\ MonkeysIdle
    /\ \E knots \in 0..MaxKnots : rope = RopeNew(knots)

\* The variables of every day but day 9.
not_rope_vars ==
    <<tunnel_vars, tree_vars, sand_vars, crate_vars, fs_vars, monkey_vars>>

\* Whether the head would stay within the generated motions' range.
HeadInRange(r, direction) ==
    IF Len(r.knot_positions) = 0 THEN TRUE
    ELSE LET head == PositionAdd(r.knot_positions[1], DirectionVector(direction))
         IN  head.x \in -MaxCoord..MaxCoord /\ head.y \in -MaxCoord..MaxCoord

\* main, lines 31-33: one rope.move_head(direction).
MoveHead ==
    /\ pc = "rope_moves"
    /\ Cardinality(rope.last_positions) <= MaxVisited
    /\ \E direction \in Directions :
          /\ HeadInRange(rope, direction)
          /\ rope' = RopeMoveHead(rope, direction)
    /\ UNCHANGED pc
    /\ UNCHANGED not_rope_vars

\* main, line 39: the input ends, the number of positions is printed.
PrintPositions ==
    /\ pc = "rope_moves"
    /\ pc' = "rope_done"
    /\ UNCHANGED rope
    /\ UNCHANGED not_rope_vars

NextRope == MoveHead \/ PrintPositions

RopeSpec == InitRope /\ [][NextRope]_vars

\* ------------------------------------------------------------------------
\* Rope::move_head: C27 (checked under RopeSpec)
\* ------------------------------------------------------------------------

\* Whether two coordinates differ by at most 1.
Near(a, b) == a - b \in -1..1

\* C27: the rope invariant. From Rope::new(k), after any sequence of
\* move_head calls, every two consecutive knots touch (their x and their y
\* each differ by at most 1), and last_positions contains the origin and
\* the current position of the last knot.
C27_KnotsTouchAndLastIsRecorded ==
    LET knots == rope.knot_positions
    IN  /\ \A k \in 1..(Len(knots) - 1) :
               /\ Near(knots[k].x, knots[k + 1].x)
               /\ Near(knots[k].y, knots[k + 1].y)
        /\ Position(0, 0) \in rope.last_positions
        /\ Len(knots) > 0 => knots[Len(knots)] \in rope.last_positions

\* The case of C27: a rope of MaxKnots knots whose last knot was dragged
\* off the origin, one knot of it by a diagonal step.
C27_Witness ==
    LET knots == rope.knot_positions
    IN  /\ Len(knots) = MaxKnots
        /\ knots[MaxKnots] # Position(0, 0)
        /\ \E k \in 1..(MaxKnots - 1) :
               knots[k].x # knots[k + 1].x /\ knots[k].y # knots[k + 1].y

\* ------------------------------------------------------------------------
\* Day 11: src/day11/src/bin/part1.rs
\* ------------------------------------------------------------------------

\* Bounds of the generated monkeys: how many there are, how many items one
\* starts with, the largest starting worry level, the largest divisor of a
\* test, and the worry level past which a game is not followed further.
MaxMonkeys == 2
MaxItems == 2
MaxItemWorry == 4
MaxDivisor == 2
MaxWorry == 50

\* play_keep_away, line 130: for round in 1..=20.
ROUNDS == 20

\* Operand, lines 273-276.
OperandValue(value) == [kind |-> "Value", value |-> value]
OperandOld == [kind |-> "Old", value |-> 0]

\* Operation, lines 227-230.
OperationAdd(op1, op2) == [kind |-> "Add", op1 |-> op1, op2 |-> op2]
OperationMultiply(op1, op2) == [kind |-> "Multiply", op1 |-> op1, op2 |-> op2]

\* Operand::apply, lines 279-284.
OperandApply(operand, old) ==
    IF operand.kind = "Value" THEN operand.value ELSE old

\* Operation::apply, lines 233-238.
OperationApply(operation, old) ==
    IF operation.kind = "Add"
    THEN OperandApply(operation.op1, old) + OperandApply(operation.op2, old)
    ELSE OperandApply(operation.op1, old) * OperandApply(operation.op2, old)

\* i64 division, which truncates toward zero.
DivTruncated(a, b) == IF a >= 0 THEN a \div b ELSE -((-a) \div b)

\* Test::passes, lines 324-328; the divisor is not 0 here.
TestPasses(test, value) ==
    (IF value >= 0 THEN value ELSE -value) % test.divisible_by = 0

\* Condition::action, lines 309-315.
ConditionAction(condition, value) ==
    IF TestPasses(condition.test, value)
    THEN condition.if_true ELSE condition.if_false

\* The worry level an item is thrown with: inspected, then divided by 3.
InspectedWorry(monkey, worry) ==
    DivTruncated(OperationApply(monkey.operation, worry), 3)

\* Monkey::play_turn when it counts one inspection for the whole turn.
PlayTurnCountsOnce(monkey) ==
    [monkey   |-> [monkey EXCEPT !.items = << >>, !.inspections = @ + 1],
     outcomes |-> [k \in 1..Len(monkey.items) |->
                      [item   |-> InspectedWorry(monkey, monkey.items[k]),
                       target |-> ConditionAction(
                                      monkey.condition,
                                      InspectedWorry(monkey, monkey.items[k]))]]]

\* Monkey::play_turn, lines 178-218: every item drained, inspected and
\* turned into an outcome, one inspection counted for each.
PlayTurn(monkey) ==
    [monkey   |-> [monkey EXCEPT !.items = << >>,
                                 !.inspections = @ + Len(monkey.items)],
     outcomes |-> [k \in 1..Len(monkey.items) |->
                      [item   |-> InspectedWorry(monkey, monkey.items[k]),
                       target |-> ConditionAction(
                                      monkey.condition,
                                      InspectedWorry(monkey, monkey.items[k]))]]]

\* Test::passes, line 326: value % 0 panics, at the first item inspected.
PlayTurnPanics(monkey) ==
    monkey.condition.test.divisible_by = 0 /\ Len(monkey.items) > 0

\* play_keep_away, lines 134-140: the outcomes pushed to their targets in
\* order; monkeys[target] panics for an index past the end, with the
\* outcomes before it already delivered.
RECURSIVE ThrowOutcomes(_, _, _)
ThrowOutcomes(ms, outcomes, k) ==
    IF k > Len(outcomes) THEN [monkeys |-> ms, ok |-> TRUE]
    ELSE IF outcomes[k].target >= Len(ms) THEN [monkeys |-> ms, ok |-> FALSE]
    ELSE ThrowOutcomes(
             [ms EXCEPT ![outcomes[k].target + 1].items =
                            Append(@, outcomes[k].item)],
             outcomes, k + 1)

\* play_keep_away, lines 132-141: the turn of monkey i.
MonkeyTurn(ms, i) ==
    LET played == PlayTurn(ms[i + 1])
    IN  ThrowOutcomes([ms EXCEPT ![i + 1] = played.monkey], played.outcomes, 1)

\* play_keep_away, line 158: monkeys.sort_by_key(Reverse(inspections)), a
\* stable sort: most inspections first, ties in their old order.
RECURSIVE SortByInspections(_)
SortByInspections(ms) ==
    IF ms = << >> THEN << >>
    ELSE LET first == CHOOSE k \in 1..Len(ms) :
                          /\ \A j \in 1..Len(ms) :
                                 ms[j].inspections <= ms[k].inspections
                          /\ \A j \in 1..(k - 1) :
                                 ms[j].inspections < ms[k].inspections
         IN  << ms[first] >> \o
             SortByInspections(SubSeq(ms, 1, first - 1) \o
                               SubSeq(ms, first + 1, Len(ms)))

\* ------------------------------------------------------------------------
\* Specification MonkeySpec: day 11 main
\* ------------------------------------------------------------------------

InitMonkeys ==
    /\ pc = "monkey_parse"
    /\ tunnel_scans = << >>
    /\ tunnels = NoTunnels
    /\ starting_room = "AA"
    /\ time = 0
    /\ best_path = PathEmpty
    /\ score = 0
    /\ tree_patch = TreePatchNew
    /\ index = 0
    /\ total_visible_trees = 0
    /\ OtherDaysIdle

\* The variables of every day but day 11.
not_monkey_vars ==
    <<tunnel_vars, tree_vars, sand_vars, crate_vars, fs_vars, rope_vars>>

\* The starting items, operations and conditions of the generated monkeys.
StartingItems ==
    UNION {[1..n -> {1, MaxItemWorry}] : n \in 0..MaxItems}
Operations ==
    {OperationAdd(OperandOld, OperandValue(1)),
     OperationMultiply(OperandOld, OperandOld)}
Conditions ==
    {[test |-> [divisible_by |-> d], if_true |-> t, if_false |-> f] :
        d \in {0, MaxDivisor}, t \in 0..(MaxMonkeys - 1),
        f \in 0..(MaxMonkeys - 1)}

\* main, lines 20-113: the six lines of one monkey parsed and pushed.
ParseMonkey ==
    /\ pc = "monkey_parse"
    /\ Len(monkeys) < MaxMonkeys
    /\ \E items \in StartingItems, operation \in Operations,
          condition \in Conditions :
          monkeys' = Append(monkeys, [inspections |-> 0,
                                      items       |-> items,
                                      operation   |-> operation,
                                      condition   |-> condition])
    /\ UNCHANGED <<pc, round, turn>>
    /\ UNCHANGED not_monkey_vars

\* main, line 115, and play_keep_away, lines 130-131: the game starts with
\* round 1 and monkey 0; without monkeys all the rounds are empty.
PlayKeepAway ==
    /\ pc = "monkey_parse"
    /\ pc' = IF monkeys = << >> THEN "monkey_sort" ELSE "monkey_play"
    /\ round' = 1
    /\ turn' = 0
    /\ UNCHANGED monkeys
    /\ UNCHANGED not_monkey_vars

\* play_keep_away, lines 131-141: the turn of monkey i of this round, or
\* one of its panics; after the last monkey the next round starts, after
\* the last round the loop ends.
Turn ==
    /\ pc = "monkey_play"
    /\ \/ /\ PlayTurnPanics(monkeys[turn + 1])
          /\ pc' = "panic_rem"
          /\ UNCHANGED monkey_vars
       \/ /\ ~PlayTurnPanics(monkeys[turn + 1])
          /\ \E thrown \in {MonkeyTurn(monkeys, turn)} :
                /\ \A i \in 1..Len(thrown.monkeys) :
                       \A k \in 1..Len(thrown.monkeys[i].items) :
                           thrown.monkeys[i].items[k] <= MaxWorry
                /\ monkeys' = thrown.monkeys
                /\ \/ /\ ~thrown.ok
                      /\ pc' = "panic_index"
                      /\ UNCHANGED <<round, turn>>
                   \/ /\ thrown.ok
                      /\ turn + 1 < Len(monkeys)
                      /\ turn' = turn + 1
                      /\ UNCHANGED <<pc, round>>
                   \/ /\ thrown.ok
                      /\ turn + 1 = Len(monkeys)
                      /\ round < ROUNDS
                      /\ round' = round + 1
                      /\ turn' = 0
                      /\ UNCHANGED pc
                   \/ /\ thrown.ok
                      /\ turn + 1 = Len(monkeys)
                      /\ round = ROUNDS
                      /\ pc' = "monkey_sort"
                      /\ UNCHANGED <<round, turn>>
    /\ UNCHANGED not_monkey_vars

\* play_keep_away, lines 158-165: the monkeys sorted by their inspections
\* for the product of the two largest counts.
SortMonkeys ==
    /\ pc = "monkey_sort"
    /\ monkeys' = SortByInspections(monkeys)
    /\ pc' = "monkey_done"
    /\ UNCHANGED <<round, turn>>
    /\ UNCHANGED not_monkey_vars

NextMonkeys == ParseMonkey \/ PlayKeepAway \/ Turn \/ SortMonkeys

MonkeySpec == InitMonkeys /\ [][NextMonkeys]_vars

\* ------------------------------------------------------------------------
\* play_keep_away and Monkey::play_turn: C28 (checked under MonkeySpec)
\* ------------------------------------------------------------------------

\* The number of items all the monkeys hold.
RECURSIVE TotalItems(_)
TotalItems(ms) ==
    IF ms = << >> THEN 0
    ELSE Len(Head(ms).items) + TotalItems(Tail(ms))

\* Whether every throw target is a valid monkey index.
ValidTargets(ms) ==
    \A i \in 1..Len(ms) :
        /\ ms[i].condition.if_true < Len(ms)
        /\ ms[i].condition.if_false < Len(ms)

\* A step of the game in which a monkey's turn was played to its end.
TurnPlayed ==
    pc = "monkey_play" /\ pc' \in {"monkey_play", "monkey_sort"}

\* C28: item conservation. When every throw target is a valid monkey
\* index, a monkey's turn leaves the total number of items held as it was
\* (so after every turn it is the initial total), and the inspections of
\* the monkey that played grow by exactly the number of items it held at
\* the start of the turn.
C28_TurnConservesItems ==
    [][(TurnPlayed /\ ValidTargets(monkeys)) =>
          /\ TotalItems(monkeys') = TotalItems(monkeys)
          /\ monkeys'[turn + 1].inspections =
                 monkeys[turn + 1].inspections + Len(monkeys[turn + 1].items)
          /\ \A i \in 1..Len(monkeys) :
                 i # turn + 1 =>
                     monkeys'[i].inspections = monkeys[i].inspections]_vars

\* The case of C28: with valid targets, in a later round, a monkey has
\* inspected several items and a monkey holds several items again.
C28_Witness ==
    /\ pc = "monkey_play"
    /\ ValidTargets(monkeys)
    /\ round >= 2
    /\ \E i \in 1..Len(monkeys) : monkeys[i].inspections >= 3
    /\ \E i \in 1..Len(monkeys) : Len(monkeys[i].items) >= 2

=============================================================================
